---- MODULE Spec2Model ----
(***************************************************************************)
(* School savings ledger: the createTransaction route of the tRPC server   *)
(* (zod input validation, then handlers/transactions.ts createTransaction) *)
(* running as concurrent requests against one PostgreSQL database, the     *)
(* balance setter of handlers/students.ts, and the read operations of      *)
(* handlers/transactions.ts and handlers/dashboard.ts.                     *)
(*                                                                         *)
(* Money is counted in mills (1 = 0.001 currency units), so that 10 is one *)
(* cent.  The numeric(12,2) columns hold multiples of 10; the request's    *)
(* amount is any JavaScript number and may carry a third fractional digit. *)
(*                                                                         *)
(* db.transaction is called without an isolation level, so each posting    *)
(* runs as a PostgreSQL READ COMMITTED transaction: a SELECT sees the      *)
(* committed rows, an UPDATE takes the row lock and waits while another    *)
(* transaction holds it, and the writes of a transaction become visible    *)
(* together at COMMIT or not at all after ROLLBACK.  The serial sequence   *)
(* behind transactions.id is not transactional.                            *)
(***************************************************************************)
EXTENDS Integers, Sequences, FiniteSets

\* ---------------------------------------------------------------- bounds
\* Highest value the transactions.id sequence may hand out.
MaxId == 3

\* ------------------------------------------------------- request universe
\* Concurrent request slots of the server.
Procs == {1, 2}
\* The slot used when requests arrive one after the other.
SeqProcs == {1}
\* student_profiles rows present from the start, and an id with no row.
InitialStudents == {1, 2}
StudentIds == {1, 2, 3}
\* staff_profiles rows present, and an id with no row.
StaffProfiles == {1}
StaffIds == {1, 2}
TransactionTypes == {"DEPOSIT", "WITHDRAWAL"}
\* input.amount values, in mills: -0.01, 0, 0.004, 0.005, 0.01, 0.02.
Amounts == {-10, 0, 4, 5, 10, 20}
\* Requests that arrive one after the other: every combination.
SeqInputs ==
  [student_id : StudentIds, staff_id : StaffIds, type : TransactionTypes,
   amount : Amounts]
\* Requests that arrive concurrently: whole-cent amounts on the existing
\* accounts.  Account 1 receives deposits of 0.01 and withdrawals of 0.01
\* and 0.02 from either staff id; account 2 receives postings of 0.01 from
\* the existing staff profile.
ConcInputs ==
  { in \in SeqInputs :
      /\ in.student_id \in InitialStudents
      /\ in.amount \in {10, 20}
      /\ in.amount = 20 => in.type = "WITHDRAWAL"
      /\ in.student_id # 1 => in.staff_id \in StaffProfiles /\ in.amount = 10 }

\* Passwords a caller may type.
Passwords == {"a", "b"}
\* Bun.password.hash and Bun.password.verify: a hash verifies exactly the
\* password it was made from (the salt is left out, nothing reads it).
hashPassword(password) == [algorithm |-> "argon2id", of |-> password]
verifyPassword(password, hash) == hash = hashPassword(password)
\* The literal createStudent stores as password_hash; it is no hash, so no
\* password verifies against it.
HashedNis == [algorithm |-> "none", of |-> "hashed_nis"]
\* users rows present from the start: the user of the staff profile (made
\* with the password "a") and the users of the two student profiles.
InitialUsers ==
  [u \in {1, 2, 3} |->
     IF u = 1
     THEN [username |-> "staff1", password_hash |-> hashPassword("a"),
           role |-> "STAFF", is_active |-> TRUE, must_change_password |-> FALSE]
     ELSE [username |-> IF u = 2 THEN "nis1" ELSE "nis2",
           password_hash |-> HashedNis, role |-> "STUDENT",
           is_active |-> TRUE, must_change_password |-> TRUE]]
\* classes rows present from the start.
Classes == {1, 2}
\* The input of a directory call, with every field absent: a string that
\* is not given is "", an id that is not given is 0, and an optional
\* password is the empty set or the set holding the password.
NoArgs == [nis |-> "", class_id |-> 0, username |-> "", password |-> {},
           role |-> "", employee_id |-> "", user_id |-> 0,
           current_password |-> "", new_password |-> "", sessionId |-> 0]
\* No directory call has been made by the slot.
NoCall == [op |-> "none", step |-> "idle", in |-> NoArgs, user |-> 0,
           status |-> "none"]
NoInput == [student_id |-> 0, staff_id |-> 0, type |-> "NONE", amount |-> 0]
NoRow == [id |-> 0, student_id |-> 0, staff_id |-> 0, type |-> "NONE",
          amount |-> 0, balance_before |-> 0, balance_after |-> 0,
          transaction_date |-> 0, created_at |-> 0]
NoFloat == [mills |-> 0, below |-> FALSE]
\* No response of a read operation is outstanding.
NoReply == [op |-> "none"]

VARIABLES
  students,       \* student_profiles: id -> current_balance (committed)
  transactions,   \* transactions table, committed rows in commit order
  nextId,         \* next value of the transactions.id sequence
  pc,             \* per request slot: position inside createTransaction
  input,          \* per slot: staffId and CreateTransactionInput
  currentBalance, \* per slot: local currentBalance
  newBalance,     \* per slot: local newBalance (a double)
  txBalance,      \* per slot: uncommitted current_balance written by tx
  txRow,          \* per slot: uncommitted transactions row inserted by tx
  result,         \* per slot: outcome of the slot's last call
  pre,            \* per slot: committed state when the last call started
  quiet,          \* per slot: no other slot committed since the call started
  now,            \* the clock shared by the server and the database
  txStart,        \* per slot: start time of the slot's database transaction
  reply,          \* the response of a read operation, until the next step
  users,          \* users table: id -> row
  classes,        \* ids of the classes rows
  nextClassId,    \* next value of the classes.id sequence
  student_profiles, \* student_profiles: id -> user_id, nis, class_id
  staff_profiles, \* staff_profiles: id -> user_id, employee_id
  sessions,       \* sessions table: set of rows
  nextSession,    \* number of session ids generated so far, plus one
  call            \* per slot: the directory call in progress or last made

\* The tables and call state of the class, student, user and session
\* handlers.
directory == <<users, classes, nextClassId, student_profiles, staff_profiles,
               sessions, nextSession, call>>

vars == <<students, transactions, nextId, pc, input, currentBalance,
          newBalance, txBalance, txRow, result, pre, quiet, now, txStart,
          reply, directory>>

\* The slot's call is at the given step, or has ended (step "idle") with the
\* outcome status; user is the id of the users row the call holds.
Entered(p, op, step, in, user, status) ==
  call' = [call EXCEPT ![p] = [op |-> op, step |-> step, in |-> in,
                               user |-> user, status |-> status]]

\* ------------------------------------------------------------ arithmetic
\* z.number().positive()
AmountValid_NonNegative(a) == a >= 0
AmountValid(a) == a > 0

\* Triples <<type, currentBalance, amount>> whose IEEE-754 double result
\* lies just below the exact decimal half-cent (0.03 + 0.005 is
\* 0.034999999999999996), for balances up to 0.20 and the amount 0.005.
FloatBelow == { <<"DEPOSIT", 30, 5>>, <<"WITHDRAWAL", 30, 5>>,
                <<"WITHDRAWAL", 90, 5>>, <<"WITHDRAWAL", 120, 5>> }

\* newBalance = currentBalance +/- transactionAmount, in double arithmetic
ComputeNewBalance_AlwaysAdd(type, cur, amt) ==
  [mills |-> cur + amt, below |-> <<type, cur, amt>> \in FloatBelow]
ComputeNewBalance(type, cur, amt) ==
  [mills |-> IF type = "DEPOSIT" THEN cur + amt ELSE cur - amt,
   below |-> <<type, cur, amt>> \in FloatBelow]

\* the overdraft test: only on the WITHDRAWAL branch, newBalance < 0
InsufficientBalance_Never(type, nb) == FALSE
InsufficientBalance(type, nb) == type = "WITHDRAWAL" /\ nb.mills < 0

\* x.toString() stored into a numeric(12,2) column: PostgreSQL rounds the
\* decimal text to two fractional digits, ties away from zero.
RoundCents(m) ==
  IF m >= 0 THEN ((m + 5) \div 10) * 10 ELSE 0 - (((0 - m) + 5) \div 10) * 10
ToNumeric(x) ==
  IF x.below /\ x.mills % 10 = 5 THEN (x.mills \div 10) * 10
  ELSE RoundCents(x.mills)
Exact(m) == [mills |-> m, below |-> FALSE]

\* ------------------------------------------------------------- database
\* rows of student_profiles matching eq(studentProfilesTable.id, id)
StudentRows(id) == IF id \in DOMAIN students THEN {id} ELSE {}

\* A row lock on student_profiles row s is held by a transaction that has
\* issued its UPDATE and has not yet committed or rolled back.
RowLocked_Global(s, p) ==
  \E q \in Procs \ {p} : pc[q] \in {"insert", "commit"}
RowLocked(s, p) ==
  \E q \in Procs \ {p} :
     /\ pc[q] \in {"insert", "commit"}
     /\ input[q].student_id = s
     /\ s \in DOMAIN students

InFlight == Cardinality({p \in Procs : pc[p] # "idle"})

Snapshot == [students |-> students, transactions |-> transactions, nextId |-> nextId]

NoSnapshot == [students |-> << >>, transactions |-> << >>, nextId |-> 0]

\* The call has returned or thrown: its locals are gone (the request that
\* was sent stays with its outcome).
Finished(p) ==
  /\ input' = input
  /\ currentBalance' = [currentBalance EXCEPT ![p] = 0]
  /\ newBalance' = [newBalance EXCEPT ![p] = NoFloat]
  /\ pre' = [pre EXCEPT ![p] = NoSnapshot]
  /\ txStart' = [txStart EXCEPT ![p] = 0]
  /\ now' = now
  /\ reply' = NoReply
  /\ UNCHANGED directory

\* ROLLBACK after a throw inside the db.transaction callback: the
\* transaction's writes are discarded and the error reaches the caller.
Abort_KeepBalance(p, err) ==
  /\ students' = [s \in DOMAIN students |->
                    IF s = input[p].student_id /\ pc[p] \in {"insert", "commit"}
                    THEN txBalance[p] ELSE students[s]]
  /\ transactions' = transactions
  /\ pc' = [pc EXCEPT ![p] = "idle"]
  /\ result' = [result EXCEPT ![p] = [status |-> err, entry |-> NoRow]]
  /\ txBalance' = [txBalance EXCEPT ![p] = 0]
  /\ txRow' = [txRow EXCEPT ![p] = NoRow]
  /\ Finished(p)
  /\ quiet' = [quiet EXCEPT ![p] = TRUE]
Abort(p, err) ==
  /\ students' = students
  /\ transactions' = transactions
  /\ pc' = [pc EXCEPT ![p] = "idle"]
  /\ result' = [result EXCEPT ![p] = [status |-> err, entry |-> NoRow]]
  /\ txBalance' = [txBalance EXCEPT ![p] = 0]
  /\ txRow' = [txRow EXCEPT ![p] = NoRow]
  /\ Finished(p)
  /\ quiet' = [quiet EXCEPT ![p] = TRUE]

\* ----------------------------------------------------------------- Init
Init ==
  /\ students = [s \in InitialStudents |-> 0]
  /\ transactions = <<>>
  /\ nextId = 1
  /\ pc = [p \in Procs |-> "idle"]
  /\ input = [p \in Procs |-> NoInput]
  /\ currentBalance = [p \in Procs |-> 0]
  /\ newBalance = [p \in Procs |-> NoFloat]
  /\ txBalance = [p \in Procs |-> 0]
  /\ txRow = [p \in Procs |-> NoRow]
  /\ result = [p \in Procs |-> [status |-> "none", entry |-> NoRow]]
  /\ pre = [p \in Procs |-> NoSnapshot]
  /\ quiet = [p \in Procs |-> TRUE]
  /\ now = 0
  /\ txStart = [p \in Procs |-> 0]
  /\ reply = NoReply
  /\ users = InitialUsers
  /\ classes = Classes
  /\ nextClassId = 3
  /\ student_profiles =
       [s \in InitialStudents |->
          [user_id |-> s + 1, nis |-> InitialUsers[s + 1].username, class_id |-> s]]
  /\ staff_profiles = [f \in StaffProfiles |-> [user_id |-> 1, employee_id |-> "e1"]]
  /\ sessions = {}
  /\ nextSession = 1
  /\ call = [p \in Procs |-> NoCall]

\* -------------------------------------------------------------- actions
\* The createTransaction route: the input is parsed by
\* createTransactionInputSchema; a rejected input never reaches the
\* handler.  An accepted one enters the handler, which opens the database
\* transaction.
Request(p, inputs) ==
  /\ pc[p] = "idle"
  /\ nextId + InFlight <= MaxId
  /\ \E in \in inputs :
       /\ input' = [input EXCEPT ![p] = in]
       /\ IF AmountValid(in.amount)
          THEN /\ pc' = [pc EXCEPT ![p] = "select"]
               /\ result' = [result EXCEPT ![p] = [status |-> "pending", entry |-> NoRow]]
               /\ txStart' = [txStart EXCEPT ![p] = now]
          ELSE /\ pc' = pc
               /\ result' = [result EXCEPT ![p] = [status |-> "InvalidAmount", entry |-> NoRow]]
               /\ txStart' = txStart
  /\ pre' = [pre EXCEPT ![p] = Snapshot]
  /\ quiet' = [quiet EXCEPT ![p] = TRUE]
  /\ UNCHANGED <<students, transactions, nextId, currentBalance, newBalance,
                 txBalance, txRow, now>>
  /\ reply' = NoReply
  /\ UNCHANGED directory

\* tx.select() of the student row, then the synchronous code up to the
\* next await: the not-found throw, the arithmetic and the overdraft throw.
SelectStudent_NoCheck(p) ==
  /\ pc[p] = "select"
  /\ LET s == input[p].student_id
         cur == IF StudentRows(s) = {} THEN 0 ELSE students[s]
         nb == ComputeNewBalance(input[p].type, cur, input[p].amount) IN
     IF InsufficientBalance(input[p].type, nb)
     THEN Abort(p, "Insufficient balance")
     ELSE /\ currentBalance' = [currentBalance EXCEPT ![p] = cur]
          /\ newBalance' = [newBalance EXCEPT ![p] = nb]
          /\ pc' = [pc EXCEPT ![p] = "update"]
          /\ UNCHANGED <<students, transactions, result, txBalance, txRow,
                         input, pre, quiet, now, txStart>>
          /\ reply' = NoReply
          /\ UNCHANGED directory
  /\ UNCHANGED nextId
SelectStudent(p) ==
  /\ pc[p] = "select"
  /\ LET s == input[p].student_id IN
     IF StudentRows(s) = {}
     THEN Abort(p, "Student not found")
     ELSE LET cur == students[s]
              nb == ComputeNewBalance(input[p].type, cur, input[p].amount) IN
          IF InsufficientBalance(input[p].type, nb)
          THEN Abort(p, "Insufficient balance")
          ELSE /\ currentBalance' = [currentBalance EXCEPT ![p] = cur]
               /\ newBalance' = [newBalance EXCEPT ![p] = nb]
               /\ pc' = [pc EXCEPT ![p] = "update"]
               /\ UNCHANGED <<students, transactions, result, txBalance, txRow,
                              input, pre, quiet, now, txStart>>
  /\ reply' = NoReply
  /\ UNCHANGED directory
  /\ UNCHANGED nextId

\* tx.update(studentProfilesTable).set({current_balance}).where(id = s):
\* waits for the row lock, then writes inside the transaction.
UpdateBalance_Autocommit(p) ==
  /\ pc[p] = "update"
  /\ students' = [s \in DOMAIN students |->
                    IF s = input[p].student_id THEN ToNumeric(newBalance[p])
                    ELSE students[s]]
  /\ txBalance' = [txBalance EXCEPT ![p] = ToNumeric(newBalance[p])]
  /\ pc' = [pc EXCEPT ![p] = "insert"]
  /\ UNCHANGED <<transactions, nextId, input, currentBalance, newBalance,
                 txRow, result, pre, quiet, now, txStart>>
  /\ reply' = NoReply
  /\ UNCHANGED directory
UpdateBalance(p) ==
  /\ pc[p] = "update"
  /\ ~RowLocked(input[p].student_id, p)
  /\ txBalance' = [txBalance EXCEPT ![p] = ToNumeric(newBalance[p])]
  /\ pc' = [pc EXCEPT ![p] = "insert"]
  /\ UNCHANGED <<students, transactions, nextId, input, currentBalance,
                 newBalance, txRow, result, pre, quiet, now, txStart>>
  /\ reply' = NoReply
  /\ UNCHANGED directory

\* tx.insert(transactionsTable).values({...}).returning(): the id default
\* draws from the sequence, then the foreign keys are checked.
InsertTransaction_Autocommit(p) ==
  /\ pc[p] = "insert"
  /\ nextId' = nextId + 1
  /\ IF input[p].staff_id \in StaffProfiles /\ input[p].student_id \in DOMAIN students
     THEN LET row == [id |-> nextId,
                      student_id |-> input[p].student_id,
                      staff_id |-> input[p].staff_id,
                      type |-> input[p].type,
                      amount |-> ToNumeric(Exact(input[p].amount)),
                      balance_before |-> ToNumeric(Exact(currentBalance[p])),
                      balance_after |-> ToNumeric(newBalance[p]),
                      transaction_date |-> txStart[p],
                      created_at |-> txStart[p]] IN
          /\ txRow' = [txRow EXCEPT ![p] = row]
          /\ transactions' = Append(transactions, row)
          /\ pc' = [pc EXCEPT ![p] = "commit"]
          /\ UNCHANGED <<students, result, txBalance, input, currentBalance,
                         newBalance, pre, quiet, now, txStart>>
          /\ reply' = NoReply
          /\ UNCHANGED directory
     ELSE Abort(p, "StorageFailure")
InsertTransaction(p) ==
  /\ pc[p] = "insert"
  /\ nextId' = nextId + 1
  /\ IF input[p].staff_id \in StaffProfiles /\ input[p].student_id \in DOMAIN students
     THEN /\ txRow' = [txRow EXCEPT ![p] =
                         [id |-> nextId,
                          student_id |-> input[p].student_id,
                          staff_id |-> input[p].staff_id,
                          type |-> input[p].type,
                          amount |-> ToNumeric(Exact(input[p].amount)),
                          balance_before |-> ToNumeric(Exact(currentBalance[p])),
                          balance_after |-> ToNumeric(newBalance[p]),
                          transaction_date |-> txStart[p],
                          created_at |-> txStart[p]]]
          /\ pc' = [pc EXCEPT ![p] = "commit"]
          /\ UNCHANGED <<students, transactions, result, txBalance, input,
                         currentBalance, newBalance, pre, quiet, now, txStart>>
          /\ reply' = NoReply
          /\ UNCHANGED directory
     ELSE Abort(p, "StorageFailure")

\* The callback returns the row with its numeric fields parsed; drizzle
\* commits, and both writes become visible together.
Commit_Overwrite(p) ==
  /\ pc[p] = "commit"
  /\ students' = [s \in DOMAIN students |->
                    IF s = input[p].student_id THEN txBalance[p] ELSE students[s]]
  /\ transactions' = <<txRow[p]>>
  /\ result' = [result EXCEPT ![p] = [status |-> "ok", entry |-> txRow[p]]]
  /\ pc' = [pc EXCEPT ![p] = "idle"]
  /\ txBalance' = [txBalance EXCEPT ![p] = 0]
  /\ txRow' = [txRow EXCEPT ![p] = NoRow]
  /\ input' = input
  /\ currentBalance' = [currentBalance EXCEPT ![p] = 0]
  /\ newBalance' = [newBalance EXCEPT ![p] = NoFloat]
  /\ pre' = [q \in Procs |-> NoSnapshot]
  /\ quiet' = [q \in Procs |-> q = p]
  /\ txStart' = [txStart EXCEPT ![p] = 0]
  /\ UNCHANGED <<nextId, now>>
  /\ reply' = NoReply
  /\ UNCHANGED directory
Commit(p) ==
  /\ pc[p] = "commit"
  /\ students' = [s \in DOMAIN students |->
                    IF s = input[p].student_id THEN txBalance[p] ELSE students[s]]
  /\ transactions' = Append(transactions, txRow[p])
  /\ result' = [result EXCEPT ![p] = [status |-> "ok", entry |-> txRow[p]]]
  /\ pc' = [pc EXCEPT ![p] = "idle"]
  /\ txBalance' = [txBalance EXCEPT ![p] = 0]
  /\ txRow' = [txRow EXCEPT ![p] = NoRow]
  /\ input' = input
  /\ currentBalance' = [currentBalance EXCEPT ![p] = 0]
  /\ newBalance' = [newBalance EXCEPT ![p] = NoFloat]
  /\ pre' = [q \in Procs |-> NoSnapshot]
  /\ quiet' = [q \in Procs |-> q = p]
  /\ txStart' = [txStart EXCEPT ![p] = 0]
  /\ UNCHANGED <<nextId, now>>
  /\ reply' = NoReply
  /\ UNCHANGED directory

Next ==
  \E p \in Procs :
    \/ Request(p, ConcInputs)
    \/ SelectStudent(p)
    \/ UpdateBalance(p)
    \/ InsertTransaction(p)
    \/ Commit(p)

Spec == Init /\ [][Next]_vars

\* Requests arriving one after the other: a single slot is used.
NextSeq ==
  \E p \in SeqProcs :
    \/ Request(p, SeqInputs)
    \/ SelectStudent(p)
    \/ UpdateBalance(p)
    \/ InsertTransaction(p)
    \/ Commit(p)

SpecSeq == Init /\ [][NextSeq]_vars

\* Two clients whose requests never overlap: a request is accepted only
\* while no other call is running.  Their postings are 0.005 or 0.01 in or
\* out of either account, by the existing staff profile.
TurnInputs ==
  { in \in SeqInputs : /\ in.student_id \in InitialStudents
                        /\ in.staff_id \in StaffProfiles
                        /\ in.amount \in {5, 10} }

NextTurns ==
  \E p \in Procs :
    \/ Request(p, IF \A q \in Procs : pc[q] = "idle" THEN TurnInputs ELSE {})
    \/ SelectStudent(p)
    \/ UpdateBalance(p)
    \/ InsertTransaction(p)
    \/ Commit(p)

SpecTurns == Init /\ [][NextTurns]_vars

\* ------------------------------------------------- handlers/students.ts
\* newBalance arguments of updateStudentBalance, in mills: -0.01, 0.005.
BalanceInputs == {-10, 5}

\* Postings made while the balance setter is in use: 0.01 in or out of
\* either account, by the existing staff profile.
HandlerInputs ==
  { in \in ConcInputs : in.staff_id \in StaffProfiles /\ in.amount = 10 }

\* updateStudentBalance(studentId, newBalance): one autocommitted UPDATE of
\* current_balance on the rows with that id (none for an unknown id), with
\* no check of the value and no ledger row; it reports success either way.
\* The UPDATE waits while a posting holds the row lock.
updateStudentBalance(studentId, balance) ==
  /\ ~RowLocked(studentId, 0)
  /\ students' = [s \in DOMAIN students |->
                    IF s = studentId THEN ToNumeric(Exact(balance))
                    ELSE students[s]]
  /\ pre' = [q \in Procs |-> NoSnapshot]
  /\ quiet' = [q \in Procs |-> FALSE]
  /\ UNCHANGED <<transactions, nextId, pc, input, currentBalance, newBalance,
                 txBalance, txRow, result, now, txStart>>
  /\ reply' = NoReply
  /\ UNCHANGED directory

\* The handlers called directly, as the handler tests call them: postings
\* one after the other, and updateStudentBalance at any moment.
NextHandlers ==
  \/ \E p \in SeqProcs :
       \/ Request(p, HandlerInputs)
       \/ SelectStudent(p)
       \/ UpdateBalance(p)
       \/ InsertTransaction(p)
       \/ Commit(p)
  \/ \E studentId \in StudentIds, balance \in BalanceInputs :
       updateStudentBalance(studentId, balance)

SpecHandlers == Init /\ [][NextHandlers]_vars

\* ------------------------------------------------------------------ time
\* The server and the database are taken to run in the same time zone.
\* Time is counted in instants, of which each calendar day holds these, in
\* this order: the first millisecond, the last millisecond, and a moment
\* after the last millisecond began (PostgreSQL timestamps resolve
\* microseconds, JavaScript Dates milliseconds).
Instants == <<"00:00:00.000", "23:59:59.999", "23:59:59.999500">>
TicksPerDay == Len(Instants)
\* Last instant the clock reaches.
MaxTime == 3

\* a timestamp read from the database into a JavaScript Date, and new Date()
ToDate(t) == IF Instants[(t % TicksPerDay) + 1] = "23:59:59.999500" THEN t - 1 ELSE t
\* new Date(date) followed by setHours(0, 0, 0, 0)
StartOfDay(date) == (date \div TicksPerDay) * TicksPerDay
\* new Date(date) followed by setHours(23, 59, 59, 999)
EndOfDay(date) == StartOfDay(date) + 1

\* The clock advances.
Tick ==
  /\ now < MaxTime
  /\ now' = now + 1
  /\ UNCHANGED <<students, transactions, nextId, pc, input, currentBalance,
                 newBalance, txBalance, txRow, result, pre, quiet, txStart>>
  /\ reply' = NoReply
  /\ UNCHANGED directory

\* --------------------------------------------------------- read operations
\* An optional argument that is not given.
Undefined == -1
\* Date arguments: 23:59:59.999 of the first day, 00:00:00.000 of the second.
QueryDates == {1, 3}
\* The class_id of each student profile.
ClassOf == [s \in DOMAIN student_profiles |-> student_profiles[s].class_id]
\* user_id of each staff profile.
StaffUserId == [f \in DOMAIN staff_profiles |-> staff_profiles[f].user_id]
UserRoles == {"STUDENT", "STAFF", "ADMINISTRATOR"}
\* reportFiltersSchema values used by the report requests: at most two of
\* the five filters are given.
ReportFilters ==
  { f \in [start_date : {Undefined, 3}, end_date : {Undefined, 1},
            student_id : {Undefined, 0, 1}, class_id : {Undefined, 2},
            transaction_type : {"NONE", "DEPOSIT"}] :
      Cardinality({ k \in {"start_date", "end_date", "student_id", "class_id"} :
                      f[k] # Undefined })
      + (IF f.transaction_type # "NONE" THEN 1 ELSE 0) <= 2 }

\* JavaScript truthiness of an optional number: if (filters.student_id)
Truthy(x) == x # Undefined /\ x # 0

\* The orders in which a SELECT ... ORDER BY created_at DESC may return the
\* committed rows with the given positions: newest first, rows with equal
\* created_at in an order of the database's choosing.
OrderedDesc_Ascending(ids) ==
  { [k \in 1..Cardinality(ids) |-> transactions[f[k]]] :
      f \in { g \in [1..Cardinality(ids) -> ids] :
                /\ \A a, b \in 1..Cardinality(ids) : a # b => g[a] # g[b]
                /\ \A a, b \in 1..Cardinality(ids) :
                     a < b => transactions[g[a]].created_at
                              <= transactions[g[b]].created_at } }
OrderedDesc(ids) ==
  { [k \in 1..Cardinality(ids) |-> transactions[f[k]]] :
      f \in { g \in [1..Cardinality(ids) -> ids] :
                /\ \A a, b \in 1..Cardinality(ids) : a # b => g[a] # g[b]
                /\ \A a, b \in 1..Cardinality(ids) :
                     a < b => transactions[g[a]].created_at
                              >= transactions[g[b]].created_at } }

RECURSIVE AmountSum(_)
\* sum(amount) over the committed rows with the given positions
AmountSum(ids) ==
  IF ids = {} THEN 0
  ELSE LET i == CHOOSE i \in ids : TRUE IN
       transactions[i].amount + AmountSum(ids \ {i})

RECURSIVE BalanceSum(_)
\* sum(current_balance) over the given student profiles
BalanceSum(ss) ==
  IF ss = {} THEN 0
  ELSE LET x == CHOOSE x \in ss : TRUE IN students[x] + BalanceSum(ss \ {x})

\* rows with transaction_date >= today, today being new Date() at 00:00
Today(ids) ==
  { i \in ids : transactions[i].transaction_date >= StartOfDay(ToDate(now)) }
OfType(ids, type) == { i \in ids : transactions[i].type = type }
OfStaff(staffId) ==
  { i \in DOMAIN transactions : transactions[i].staff_id = staffId }

\* The response of the read operation before has been delivered.
Delivered == reply.op = "none"

\* A read operation has run: its response goes out and nothing else changes.
\* (The statements of one read operation are taken together.)
Respond_ResetBalances(op, args, value) ==
  /\ reply' = [op |-> op, args |-> args, value |-> value]
  /\ students' = [s \in DOMAIN students |-> 0]
  /\ UNCHANGED <<transactions, nextId, pc, input, currentBalance,
                 newBalance, txBalance, txRow, result, pre, quiet, now,
                 txStart, directory>>
Respond(op, args, value) ==
  /\ reply' = [op |-> op, args |-> args, value |-> value]
  /\ UNCHANGED <<students, transactions, nextId, pc, input, currentBalance,
                 newBalance, txBalance, txRow, result, pre, quiet, now,
                 txStart, directory>>

\* getTransactionsByStudent: the student's rows joined with their staff
\* profile, newest first.
getTransactionsByStudent(studentId) ==
  /\ Delivered
  /\ \E rows \in OrderedDesc({ i \in DOMAIN transactions :
                                 /\ transactions[i].student_id = studentId
                                 /\ transactions[i].staff_id \in StaffProfiles }) :
        Respond("getTransactionsByStudent", <<studentId>>, rows)

\* getTransactionsByStaff: the staff's rows joined with their student
\* profile, restricted by the database to [startOfDay, endOfDay] when a date
\* is given, newest first.
getTransactionsByStaff(staffId, date) ==
  /\ Delivered
  /\ \E rows \in OrderedDesc({ i \in OfStaff(staffId) :
                                 /\ transactions[i].student_id \in DOMAIN students
                                 /\ date # Undefined =>
                                      /\ transactions[i].transaction_date >= StartOfDay(date)
                                      /\ transactions[i].transaction_date <= EndOfDay(date) }) :
        Respond("getTransactionsByStaff", <<staffId, date>>, rows)

\* The rows that getTransactionsReport keeps: all rows joined with student
\* profile and class, then filtered in memory, each filter applied when its
\* value is truthy; transaction_date is compared as a JavaScript Date.
ReportRows(filters) ==
  { i \in DOMAIN transactions :
      LET t == transactions[i] IN
      /\ t.student_id \in DOMAIN students
      /\ ClassOf[t.student_id] \in Classes
      /\ filters.start_date # Undefined =>
           ToDate(t.transaction_date) >= StartOfDay(filters.start_date)
      /\ filters.end_date # Undefined =>
           ToDate(t.transaction_date) <= EndOfDay(filters.end_date)
      /\ Truthy(filters.student_id) => t.student_id = filters.student_id
      /\ Truthy(filters.class_id) => ClassOf[t.student_id] = filters.class_id
      /\ filters.transaction_type # "NONE" => t.type = filters.transaction_type }

getTransactionsReport(filters) ==
  /\ Delivered
  /\ \E rows \in OrderedDesc(ReportRows(filters)) :
        Respond("getTransactionsReport", filters, rows)

\* getDailyTransactionSummary: count and sum(amount) per type over the rows
\* the database finds in [startOfDay, endOfDay], added up per type.
getDailyTransactionSummary(date) ==
  /\ Delivered
  /\ LET rows == { i \in DOMAIN transactions :
                     /\ transactions[i].transaction_date >= StartOfDay(date)
                     /\ transactions[i].transaction_date <= EndOfDay(date) }
         deposits == OfType(rows, "DEPOSIT")
         others == rows \ deposits IN
     Respond("getDailyTransactionSummary", <<date>>,
             [total_transactions |-> Cardinality(deposits) + Cardinality(others),
              total_deposits |-> Cardinality(deposits),
              total_withdrawals |-> Cardinality(others),
              deposit_amount |-> AmountSum(deposits),
              withdrawal_amount |-> AmountSum(others)])

\* getDashboardStats: global figures for an administrator, today's figures
\* of the staff profile of userId for staff, zeros otherwise.
getDashboardStats(userRole, userId) ==
  /\ Delivered
  /\ LET staff == { f \in StaffProfiles : StaffUserId[f] = userId }
         Stats(ns, nf, bal, ids) ==
           [total_students |-> ns, total_staff |-> nf, total_balance |-> bal,
            total_transactions_today |-> Cardinality(Today(ids)),
            total_deposits_today |-> Cardinality(OfType(Today(ids), "DEPOSIT")),
            total_withdrawals_today |-> Cardinality(OfType(Today(ids), "WITHDRAWAL"))] IN
     Respond("getDashboardStats", <<userRole, userId>>,
             IF userRole = "ADMINISTRATOR"
             THEN Stats(Cardinality(DOMAIN students), Cardinality(StaffProfiles),
                        BalanceSum(DOMAIN students), DOMAIN transactions)
             ELSE IF userRole = "STAFF" /\ Truthy(userId)
             THEN IF staff = {} THEN [error |-> "Staff profile not found"]
                  ELSE Stats(0, 0, 0, OfStaff(CHOOSE f \in staff : TRUE))
             ELSE Stats(0, 0, 0, {}))

\* getStudentDashboard: the balance and the ten newest rows of the student.
getStudentDashboard(studentId) ==
  /\ Delivered
  /\ IF StudentRows(studentId) = {}
     THEN Respond("getStudentDashboard", <<studentId>>,
                  [error |-> "Student profile not found"])
     ELSE \E rows \in OrderedDesc({ i \in DOMAIN transactions :
                                      /\ transactions[i].student_id = studentId
                                      /\ transactions[i].staff_id \in StaffProfiles }) :
             Respond("getStudentDashboard", <<studentId>>,
                     [current_balance |-> students[studentId],
                      recent_transactions |->
                        SubSeq(rows, 1, IF Len(rows) < 10 THEN Len(rows) ELSE 10)])

\* getStaffDashboard: counts over all student profiles, the staff's rows of
\* today, and the students of the staff's ten newest rows.
getStaffDashboard(staffId) ==
  /\ Delivered
  /\ \E rows \in OrderedDesc({ i \in OfStaff(staffId) :
                                 transactions[i].student_id \in DOMAIN students }) :
        Respond("getStaffDashboard", <<staffId>>,
                [students_count |-> Cardinality(DOMAIN students),
                 total_balance_managed |-> BalanceSum(DOMAIN students),
                 transactions_today |-> Cardinality(Today(OfStaff(staffId))),
                 recent_students |->
                   [k \in 1..(IF Len(rows) < 10 THEN Len(rows) ELSE 10) |->
                      [student_id |-> rows[k].student_id,
                       current_balance |-> students[rows[k].student_id],
                       last_transaction |-> rows[k].transaction_date]]])

\* The response of a read operation has been delivered to its caller.
ReturnReply ==
  /\ reply.op # "none"
  /\ reply' = NoReply
  /\ UNCHANGED directory
  /\ UNCHANGED <<students, transactions, nextId, pc, input, currentBalance,
                 newBalance, txBalance, txRow, result, pre, quiet, now,
                 txStart>>

\* Postings made while read operations are in use: 0.01 in or out of
\* account 1 and 0.01 into account 2, by the existing staff profile.
QueryInputs ==
  { in \in HandlerInputs : in.student_id # 1 => in.type = "DEPOSIT" }

\* Time has passed since the transaction of every committed posting began:
\* a call made after another one has returned starts at a later instant.
ClockMovedOn ==
  \A i \in DOMAIN transactions : transactions[i].created_at < now

\* Postings made one after the other while the clock runs, and read
\* operations between their steps.
NextQuery ==
  \/ \E p \in SeqProcs :
       \/ Request(p, IF ClockMovedOn THEN QueryInputs ELSE {})
       \/ SelectStudent(p)
       \/ UpdateBalance(p)
       \/ InsertTransaction(p)
       \/ Commit(p)
  \/ Tick
  \/ \E studentId \in StudentIds : getTransactionsByStudent(studentId)
  \/ \E staffId \in StaffIds, date \in QueryDates \cup {Undefined} :
       getTransactionsByStaff(staffId, date)
  \/ \E filters \in ReportFilters : getTransactionsReport(filters)
  \/ \E date \in QueryDates : getDailyTransactionSummary(date)
  \/ \E userRole \in UserRoles, userId \in {Undefined, 1, 2} :
       getDashboardStats(userRole, userId)
  \/ \E studentId \in StudentIds : getStudentDashboard(studentId)
  \/ \E staffId \in StaffIds : getStaffDashboard(staffId)
  \/ ReturnReply

SpecQuery == Init /\ [][NextQuery]_vars

\* ------------------------------------------------- classes and students
\* Highest value the classes.id sequence may hand out.
MaxClasses == 3
\* Highest number of users rows.
MaxUsers == 5

\* The variables of the posting slots.
postings == <<transactions, nextId, pc, input, currentBalance, newBalance,
              txBalance, txRow, result, pre, quiet, txStart>>

\* createStudentInputSchema values: a nis already in use and two new ones,
\* a class present from the start and one that is created and deleted.
StudentInputs ==
  { [NoArgs EXCEPT !.nis = nis, !.class_id = class_id] :
      nis \in {"nis2", "nis3", "nis4"}, class_id \in {1, 3} }
\* Ids passed to deleteClass: a class with students from the start, a class
\* that is created later, and an id no class ever has.
ClassIds == {1, 3, 9}

\* The slot's call has returned or thrown with the given outcome.
Returned(p, op, in, status) ==
  Entered(p, op, "idle", in, call[p].user, status)

\* A row added to a table under the next id.  (Ids are consecutive; the
\* values a failed insert takes from a serial sequence are not modelled,
\* nothing reads them.)
Inserted(table, row) ==
  [k \in DOMAIN table \cup {Cardinality(DOMAIN table) + 1} |->
     IF k \in DOMAIN table THEN table[k] ELSE row]

\* createClass: one insert, which always succeeds.
createClass ==
  /\ nextClassId <= MaxClasses
  /\ classes' = classes \cup {nextClassId}
  /\ nextClassId' = nextClassId + 1
  /\ UNCHANGED <<students, postings, now, reply, users, student_profiles,
                 staff_profiles, sessions, nextSession, call>>

\* createStudent, first statement: insert of the users row, which the
\* unique constraint on username rejects when the nis is already a username.
InsertUser(p, in) ==
  /\ call[p].step = "idle"
  /\ Cardinality(DOMAIN users) < MaxUsers
  /\ IF \E u \in DOMAIN users : users[u].username = in.nis
     THEN /\ Entered(p, "createStudent", "idle", in, 0, "error")
          /\ users' = users
     ELSE /\ users' = Inserted(users,
                        [username |-> in.nis, password_hash |-> HashedNis,
                         role |-> "STUDENT", is_active |-> TRUE,
                         must_change_password |-> TRUE])
          /\ Entered(p, "createStudent", "profile", in,
                     Cardinality(DOMAIN users) + 1, "pending")
  /\ UNCHANGED <<students, postings, now, reply, classes, nextClassId,
                 student_profiles, staff_profiles, sessions, nextSession>>

\* createStudent, second statement: insert of the student_profiles row with
\* current_balance '0.00'.  The foreign key on class_id and the unique
\* constraint on nis can reject it; the error is logged and thrown again.
InsertStudentProfile_OpeningCent(p) ==
  /\ call[p].op = "createStudent" /\ call[p].step = "profile"
  /\ LET in == call[p].in IN
     IF \/ in.class_id \notin classes
        \/ \E s \in DOMAIN student_profiles : student_profiles[s].nis = in.nis
     THEN /\ Returned(p, "createStudent", in, "error")
          /\ UNCHANGED <<students, student_profiles>>
     ELSE /\ student_profiles' = Inserted(student_profiles,
                                   [user_id |-> call[p].user, nis |-> in.nis,
                                    class_id |-> in.class_id])
          /\ students' = Inserted(students, 10)
          /\ Returned(p, "createStudent", in, "ok")
  /\ UNCHANGED <<postings, now, reply, users, classes, nextClassId,
                 staff_profiles, sessions, nextSession>>
InsertStudentProfile(p) ==
  /\ call[p].op = "createStudent" /\ call[p].step = "profile"
  /\ LET in == call[p].in IN
     IF \/ in.class_id \notin classes
        \/ \E s \in DOMAIN student_profiles : student_profiles[s].nis = in.nis
     THEN /\ Returned(p, "createStudent", in, "error")
          /\ UNCHANGED <<students, student_profiles>>
     ELSE /\ student_profiles' = Inserted(student_profiles,
                                   [user_id |-> call[p].user, nis |-> in.nis,
                                    class_id |-> in.class_id])
          /\ students' = Inserted(students, 0)
          /\ Returned(p, "createStudent", in, "ok")
  /\ UNCHANGED <<postings, now, reply, users, classes, nextClassId,
                 staff_profiles, sessions, nextSession>>

\* deleteClass, first statement: the count of the class's student
\* profiles; a count above 0 throws.
CountStudents_Skip(p, id) ==
  /\ call[p].step = "idle"
  /\ Entered(p, "deleteClass", "delete", [NoArgs EXCEPT !.class_id = id], 0,
             "pending")
  /\ UNCHANGED <<students, postings, now, reply, users, classes, nextClassId,
                 student_profiles, staff_profiles, sessions, nextSession>>
CountStudents(p, id) ==
  /\ call[p].step = "idle"
  /\ IF \E s \in DOMAIN student_profiles : student_profiles[s].class_id = id
     THEN Entered(p, "deleteClass", "idle", [NoArgs EXCEPT !.class_id = id], 0,
                  "Cannot delete class with assigned students")
     ELSE Entered(p, "deleteClass", "delete", [NoArgs EXCEPT !.class_id = id],
                  0, "pending")
  /\ UNCHANGED <<students, postings, now, reply, users, classes, nextClassId,
                 student_profiles, staff_profiles, sessions, nextSession>>

\* deleteClass, second statement: the delete, which the foreign key of
\* student_profiles.class_id rejects while a profile refers to the class;
\* otherwise success tells whether a row was deleted.
DeleteClassRow(p) ==
  /\ call[p].op = "deleteClass" /\ call[p].step = "delete"
  /\ LET id == call[p].in.class_id IN
     IF \E s \in DOMAIN student_profiles : student_profiles[s].class_id = id
     THEN /\ Returned(p, "deleteClass", call[p].in, "error")
          /\ classes' = classes
     ELSE /\ classes' = classes \ {id}
          /\ Returned(p, "deleteClass", call[p].in,
                      IF id \in classes THEN "success" ELSE "no success")
  /\ UNCHANGED <<students, postings, now, reply, users, nextClassId,
                 student_profiles, staff_profiles, sessions, nextSession>>

\* Postings made while students are enrolled: deposits and withdrawals of
\* 0.01 on an account present from the start and on the first new one.
RosterInputs ==
  { in \in SeqInputs : in.student_id \in {1, 3} /\ in.staff_id \in StaffProfiles
                       /\ in.amount = 10 }

\* Class and student administration by concurrent requests.
NextRoster ==
  \/ createClass
  \/ \E p \in Procs :
       \/ \E in \in StudentInputs : InsertUser(p, in)
       \/ InsertStudentProfile(p)
       \/ \E id \in ClassIds : CountStudents(p, id)
       \/ DeleteClassRow(p)

SpecRoster == Init /\ [][NextRoster]_vars

\* Students enrolled and postings made, one request after the other.
NextEnrol ==
  \/ createClass
  \/ \E p \in SeqProcs :
       \/ \E in \in StudentInputs : InsertUser(p, in)
       \/ InsertStudentProfile(p)
       \/ Request(p, RosterInputs)
       \/ SelectStudent(p)
       \/ UpdateBalance(p)
       \/ InsertTransaction(p)
       \/ Commit(p)

SpecEnrol == Init /\ [][NextEnrol]_vars

\* ------------------------------------------------------------- sessions
\* Highest number of session ids generated.
MaxSessions == 2

\* loginInputSchema values: the staff user with the right and with a wrong
\* password, a student made by createStudent and a name no user has.
LoginInputs ==
  { [NoArgs EXCEPT !.username = in[1], !.password = {in[2]}] :
      in \in { x \in {"staff1", "nis1", "nobody"} \X Passwords :
                 x[1] # "staff1" => x[2] = "a" } }
\* Session ids passed to logout and validateSession: the ids login hands out
\* and one it never does.
SessionIds == 1..MaxSessions \cup {9}
\* User ids passed to toggleUserStatus: the staff user and no user.
ToggleIds == {1, 9}
\* validateSession's null.
NoUser == [id |-> 0]

\* The session rows with the given id (at most one, id is the primary key).
SessionRows(sessionId) == { s \in sessions : s.id = sessionId }

\* login, up to the password check: the select by username, the is_active
\* test and Bun.password.verify, each of which can throw.  (verify on a
\* stored value that is no hash either answers false or throws; both end
\* the call.)
SelectUser_AnyStatus(p, in) ==
  /\ call[p].step = "idle"
  /\ nextSession + Cardinality({q \in Procs : call[q].step = "session"})
       <= MaxSessions
  /\ LET found == { u \in DOMAIN users : users[u].username = in.username }
         password == CHOOSE pw \in in.password : TRUE IN
     IF found = {}
     THEN Entered(p, "login", "idle", in, 0, "Invalid username or password")
     ELSE LET u == CHOOSE u \in found : TRUE IN
          IF users[u].password_hash = HashedNis
          THEN \E status \in {"Invalid username or password", "error"} :
                 Entered(p, "login", "idle", in, 0, status)
          ELSE IF ~verifyPassword(password, users[u].password_hash)
          THEN Entered(p, "login", "idle", in, 0, "Invalid username or password")
          ELSE Entered(p, "login", "session", in, u, "pending")
  /\ reply' = NoReply
  /\ UNCHANGED <<students, postings, now, users, classes, nextClassId,
                 student_profiles, staff_profiles, sessions, nextSession>>
SelectUser(p, in) ==
  /\ call[p].step = "idle"
  /\ nextSession + Cardinality({q \in Procs : call[q].step = "session"})
       <= MaxSessions
  /\ LET found == { u \in DOMAIN users : users[u].username = in.username }
         password == CHOOSE pw \in in.password : TRUE IN
     IF found = {}
     THEN Entered(p, "login", "idle", in, 0, "Invalid username or password")
     ELSE LET u == CHOOSE u \in found : TRUE IN
          IF ~users[u].is_active
          THEN Entered(p, "login", "idle", in, 0, "Account is inactive")
          ELSE IF users[u].password_hash = HashedNis
          THEN \E status \in {"Invalid username or password", "error"} :
                 Entered(p, "login", "idle", in, 0, status)
          ELSE IF ~verifyPassword(password, users[u].password_hash)
          THEN Entered(p, "login", "idle", in, 0, "Invalid username or password")
          ELSE Entered(p, "login", "session", in, u, "pending")
  /\ reply' = NoReply
  /\ UNCHANGED <<students, postings, now, users, classes, nextClassId,
                 student_profiles, staff_profiles, sessions, nextSession>>

\* login, the rest: a new random session id, expires_at 24 hours after
\* Date.now(), and the insert of the sessions row.  (A random UUID is taken
\* to be an id never generated before.)
InsertSession(p) ==
  /\ call[p].op = "login" /\ call[p].step = "session"
  /\ sessions' = sessions \cup
       {[id |-> nextSession, user_id |-> call[p].user,
         expires_at |-> ToDate(now) + TicksPerDay]}
  /\ nextSession' = nextSession + 1
  /\ Returned(p, "login", [call[p].in EXCEPT !.sessionId = nextSession], "ok")
  /\ reply' = NoReply
  /\ UNCHANGED <<students, postings, now, users, classes, nextClassId,
                 student_profiles, staff_profiles>>

\* logout: one delete by id; success is true whatever was deleted.
logout_AllSessions(p, sessionId) ==
  /\ call[p].step = "idle"
  /\ sessions' = {}
  /\ Entered(p, "logout", "idle", [NoArgs EXCEPT !.sessionId = sessionId], 0,
             "success")
  /\ reply' = NoReply
  /\ UNCHANGED <<students, postings, now, users, classes, nextClassId,
                 student_profiles, staff_profiles, nextSession>>
logout(p, sessionId) ==
  /\ call[p].step = "idle"
  /\ sessions' = sessions \ SessionRows(sessionId)
  /\ Entered(p, "logout", "idle", [NoArgs EXCEPT !.sessionId = sessionId], 0,
             "success")
  /\ reply' = NoReply
  /\ UNCHANGED <<students, postings, now, users, classes, nextClassId,
                 student_profiles, staff_profiles, nextSession>>

\* validateSession: one select of the session with the id and an expires_at
\* after new Date(), joined with its user; null when there is none or the
\* user is not active.
validateSession_AtOrAfter(sessionId) ==
  /\ Delivered
  /\ LET results == { s \in SessionRows(sessionId) : s.expires_at >= ToDate(now) } IN
     IF results = {}
     THEN Respond("validateSession", <<sessionId>>, NoUser)
     ELSE LET user_id == (CHOOSE s \in results : TRUE).user_id IN
          IF ~users[user_id].is_active
          THEN Respond("validateSession", <<sessionId>>, NoUser)
          ELSE Respond("validateSession", <<sessionId>>,
                       [id |-> user_id, row |-> users[user_id]])
validateSession(sessionId) ==
  /\ Delivered
  /\ LET results == { s \in SessionRows(sessionId) : s.expires_at > ToDate(now) } IN
     IF results = {}
     THEN Respond("validateSession", <<sessionId>>, NoUser)
     ELSE LET user_id == (CHOOSE s \in results : TRUE).user_id IN
          IF ~users[user_id].is_active
          THEN Respond("validateSession", <<sessionId>>, NoUser)
          ELSE Respond("validateSession", <<sessionId>>,
                       [id |-> user_id, row |-> users[user_id]])

\* toggleUserStatus, first statement: getUserById; a missing user throws.
ReadStatus(p, userId) ==
  /\ call[p].step = "idle"
  /\ IF userId \notin DOMAIN users
     THEN Entered(p, "toggleUserStatus", "idle", [NoArgs EXCEPT !.user_id = userId],
                  0, "User not found")
     ELSE Entered(p, "toggleUserStatus",
                  IF users[userId].is_active THEN "deactivate" ELSE "activate",
                  [NoArgs EXCEPT !.user_id = userId], userId, "pending")
  /\ reply' = NoReply
  /\ UNCHANGED <<students, postings, now, users, classes, nextClassId,
                 student_profiles, staff_profiles, sessions, nextSession>>

\* toggleUserStatus, second statement: is_active is set to the opposite of
\* the value that was read.
WriteStatus(p) ==
  /\ call[p].op = "toggleUserStatus"
  /\ call[p].step \in {"deactivate", "activate"}
  /\ users' = [users EXCEPT ![call[p].user].is_active = (call[p].step = "activate")]
  /\ Returned(p, "toggleUserStatus", call[p].in, "success")
  /\ reply' = NoReply
  /\ UNCHANGED <<students, postings, now, classes, nextClassId,
                 student_profiles, staff_profiles, sessions, nextSession>>

\* Logins, logouts, session checks and status changes by concurrent
\* requests while the clock runs.
NextAuth ==
  \/ \E p \in Procs :
       \/ \E in \in LoginInputs : SelectUser(p, in)
       \/ InsertSession(p)
       \/ \E sessionId \in SessionIds : logout(p, sessionId)
       \/ \E userId \in ToggleIds : ReadStatus(p, userId)
       \/ WriteStatus(p)
  \/ \E sessionId \in SessionIds : validateSession(sessionId)
  \/ ReturnReply
  \/ Tick

SpecAuth == Init /\ [][NextAuth]_vars

\* ------------------------------------------------------------ passwords
\* An optional password as JavaScript tests it: undefined and "" are falsy.
PasswordGiven(password) == password # {} /\ password # {""}
\* The password option of createUserInputSchema and createStaffInputSchema:
\* left out, the empty string, or a password.
OptionalPasswords == {{}, {""}, {"a"}}
\* A password that generatePassword or Math.random may produce.
GeneratedPasswords == {"b"}
\* createUserInputSchema values: a new username with each password option,
\* and a username in use.
UserInputs ==
  { [NoArgs EXCEPT !.username = in[1], !.password = in[2],
                   !.role = "ADMINISTRATOR"] :
      in \in { x \in {"staff1", "admin1"} \X OptionalPasswords :
                 x[1] = "staff1" => x[2] = {"a"} } }
\* createStaffInputSchema values: a new username, with a new employee_id and
\* each password option, or with an employee_id in use.
StaffInputs ==
  { [NoArgs EXCEPT !.username = "staff2", !.employee_id = in[1],
                   !.password = in[2]] :
      in \in { x \in {"e1", "e2"} \X OptionalPasswords :
                 x[1] = "e1" => x[2] = {"a"} } }
\* updatePasswordInputSchema values with the userId of the route: the staff
\* user, the first user created later and no user; new_password is "b".
UpdatePasswordInputs ==
  { [NoArgs EXCEPT !.user_id = in[1], !.current_password = in[2],
                   !.new_password = "b"] :
      in \in {1, 4, 9} \X Passwords }
\* resetPasswordInputSchema values: the same users; new_password is "a".
ResetPasswordInputs ==
  { [NoArgs EXCEPT !.user_id = user_id, !.new_password = "a"] :
      user_id \in {1, 4, 9} }

\* createUser: the password is the one given or a generated one, and one
\* insert stores its hash with must_change_password set when none was given.
\* The unique constraint on username can reject the insert.
createUser(p, in) ==
  /\ call[p].step = "idle"
  /\ Cardinality(DOMAIN users) < MaxUsers
  /\ IF \E u \in DOMAIN users : users[u].username = in.username
     THEN /\ Entered(p, "createUser", "idle", in, 0, "error")
          /\ users' = users
     ELSE /\ \E generated \in GeneratedPasswords :
               LET password == IF PasswordGiven(in.password)
                               THEN CHOOSE pw \in in.password : TRUE
                               ELSE generated IN
               users' = Inserted(users,
                          [username |-> in.username,
                           password_hash |-> hashPassword(password),
                           role |-> in.role, is_active |-> TRUE,
                           must_change_password |->
                             IF PasswordGiven(in.password) THEN FALSE ELSE TRUE])
          /\ Entered(p, "createUser", "idle", in, Cardinality(DOMAIN users) + 1, "ok")
  /\ reply' = NoReply
  /\ UNCHANGED <<students, postings, now, classes, nextClassId,
                 student_profiles, staff_profiles, sessions, nextSession>>

\* createStaff, first statement: the insert of the users row, as in
\* createUser, with role STAFF.
InsertStaffUser(p, in) ==
  /\ call[p].step = "idle"
  /\ Cardinality(DOMAIN users) < MaxUsers
  /\ IF \E u \in DOMAIN users : users[u].username = in.username
     THEN /\ Entered(p, "createStaff", "idle", in, 0, "error")
          /\ users' = users
     ELSE /\ \E generated \in GeneratedPasswords :
               LET password == IF PasswordGiven(in.password)
                               THEN CHOOSE pw \in in.password : TRUE
                               ELSE generated IN
               users' = Inserted(users,
                          [username |-> in.username,
                           password_hash |-> hashPassword(password),
                           role |-> "STAFF", is_active |-> TRUE,
                           must_change_password |-> ~PasswordGiven(in.password)])
          /\ Entered(p, "createStaff", "profile", in,
                     Cardinality(DOMAIN users) + 1, "pending")
  /\ reply' = NoReply
  /\ UNCHANGED <<students, postings, now, classes, nextClassId,
                 student_profiles, staff_profiles, sessions, nextSession>>

\* createStaff, second statement: the insert of the staff_profiles row,
\* which the unique constraint on employee_id can reject.
InsertStaffProfile(p) ==
  /\ call[p].op = "createStaff" /\ call[p].step = "profile"
  /\ IF \E f \in DOMAIN staff_profiles :
          staff_profiles[f].employee_id = call[p].in.employee_id
     THEN /\ Returned(p, "createStaff", call[p].in, "error")
          /\ staff_profiles' = staff_profiles
     ELSE /\ staff_profiles' = Inserted(staff_profiles,
                                 [user_id |-> call[p].user,
                                  employee_id |-> call[p].in.employee_id])
          /\ Returned(p, "createStaff", call[p].in, "ok")
  /\ reply' = NoReply
  /\ UNCHANGED <<students, postings, now, users, classes, nextClassId,
                 student_profiles, sessions, nextSession>>

\* updatePassword, up to the check: getUserById and the verification of
\* current_password against the stored hash, each of which can throw.
GetUserForUpdate(p, in) ==
  /\ call[p].step = "idle"
  /\ IF in.user_id \notin DOMAIN users
     THEN Entered(p, "updatePassword", "idle", in, 0, "User not found")
     ELSE IF users[in.user_id].password_hash = HashedNis
     THEN \E status \in {"Current password is incorrect", "error"} :
            Entered(p, "updatePassword", "idle", in, 0, status)
     ELSE IF ~verifyPassword(in.current_password, users[in.user_id].password_hash)
     THEN Entered(p, "updatePassword", "idle", in, 0, "Current password is incorrect")
     ELSE Entered(p, "updatePassword", "update", in, in.user_id, "pending")
  /\ reply' = NoReply
  /\ UNCHANGED <<students, postings, now, users, classes, nextClassId,
                 student_profiles, staff_profiles, sessions, nextSession>>

\* updatePassword, the update: the hash of new_password, with
\* must_change_password false.
UpdatePasswordRow_KeepFlag(p) ==
  /\ call[p].op = "updatePassword" /\ call[p].step = "update"
  /\ users' = [users EXCEPT ![call[p].user].password_hash =
                              hashPassword(call[p].in.new_password)]
  /\ Returned(p, "updatePassword", call[p].in, "success")
  /\ reply' = NoReply
  /\ UNCHANGED <<students, postings, now, classes, nextClassId,
                 student_profiles, staff_profiles, sessions, nextSession>>
UpdatePasswordRow(p) ==
  /\ call[p].op = "updatePassword" /\ call[p].step = "update"
  /\ users' = [users EXCEPT ![call[p].user].password_hash =
                              hashPassword(call[p].in.new_password),
                            ![call[p].user].must_change_password = FALSE]
  /\ Returned(p, "updatePassword", call[p].in, "success")
  /\ reply' = NoReply
  /\ UNCHANGED <<students, postings, now, classes, nextClassId,
                 student_profiles, staff_profiles, sessions, nextSession>>

\* resetPassword, first statement: getUserById; a missing user throws.
GetUserForReset(p, in) ==
  /\ call[p].step = "idle"
  /\ IF in.user_id \notin DOMAIN users
     THEN Entered(p, "resetPassword", "idle", in, 0, "User not found")
     ELSE Entered(p, "resetPassword", "reset", in, in.user_id, "pending")
  /\ reply' = NoReply
  /\ UNCHANGED <<students, postings, now, users, classes, nextClassId,
                 student_profiles, staff_profiles, sessions, nextSession>>

\* resetPassword, the update: the hash of new_password, with
\* must_change_password true.
ResetPasswordRow(p) ==
  /\ call[p].op = "resetPassword" /\ call[p].step = "reset"
  /\ users' = [users EXCEPT ![call[p].user].password_hash =
                              hashPassword(call[p].in.new_password),
                            ![call[p].user].must_change_password = TRUE]
  /\ Returned(p, "resetPassword", call[p].in, "success")
  /\ reply' = NoReply
  /\ UNCHANGED <<students, postings, now, classes, nextClassId,
                 student_profiles, staff_profiles, sessions, nextSession>>

\* User and staff creation and password changes by concurrent requests.
NextUsers ==
  \E p \in Procs :
    \/ \E in \in UserInputs : createUser(p, in)
    \/ \E in \in StaffInputs : InsertStaffUser(p, in)
    \/ InsertStaffProfile(p)
    \/ \E in \in UpdatePasswordInputs : GetUserForUpdate(p, in)
    \/ UpdatePasswordRow(p)
    \/ \E in \in ResetPasswordInputs : GetUserForReset(p, in)
    \/ ResetPasswordRow(p)

SpecUsers == Init /\ [][NextUsers]_vars

\* ======================================================== properties
\* the committed ledger rows of student s, in commit order
EntriesOf(s) ==
  LET OfStudent(e) == e.student_id = s IN SelectSeq(transactions, OfStudent)

RECURSIVE SignedSum(_)
\* sum of DEPOSIT amounts minus sum of WITHDRAWAL amounts of a row sequence
SignedSum(es) ==
  IF es = << >> THEN 0
  ELSE (IF es[1].type = "DEPOSIT" THEN es[1].amount ELSE 0 - es[1].amount)
       + SignedSum(Tail(es))

\* the call of slot p left the accounts and the ledger as it found them
\* (compared with the state at its start when no other slot committed since)
NoEffect(p) ==
  /\ students' = students
  /\ transactions' = transactions
  /\ quiet[p] => /\ students' = pre[p].students
                 /\ transactions' = pre[p].transactions

C2_NoLostUpdates ==
  \A s \in DOMAIN students, a \in {10, 20} :
     ( /\ Len(transactions) = Cardinality(Procs)
       /\ \A p \in Procs :
            /\ pc[p] = "idle"
            /\ result[p].status = "ok"
            /\ result[p].entry.student_id = s
            /\ result[p].entry.type = "DEPOSIT"
            /\ input[p].amount = a )
     => /\ students[s] = Cardinality(Procs) * a
        /\ Cardinality({ EntriesOf(s)[i].id : i \in DOMAIN EntriesOf(s) })
             = Cardinality(Procs)

\* C3: the entries of each account, in commit order, form a chain: each
\* posting's balance_before is the previous posting's balance_after.
C3_SerializedChain ==
  \A s \in DOMAIN students :
     \A i \in DOMAIN EntriesOf(s) :
        i > 1 => EntriesOf(s)[i].balance_before = EntriesOf(s)[i - 1].balance_after

\* C4: current_balance equals the initial balance 0 plus the recorded
\* DEPOSIT amounts minus the recorded WITHDRAWAL amounts of the account,
\* and equals the balance_after of the account's most recent ledger entry.
C4_BalanceIsLedgerSum ==
  \A s \in DOMAIN students :
     /\ students[s] = 0 + SignedSum(EntriesOf(s))
     /\ EntriesOf(s) # << >> =>
          students[s] = EntriesOf(s)[Len(EntriesOf(s))].balance_after

\* C5: a WITHDRAWAL whose balance_before - amount is negative is rejected
\* with 'Insufficient balance' and leaves the account and the ledger
\* unchanged.
C5_OverdraftRejected ==
  [][\A p \in Procs :
       ( /\ pc[p] = "select"
         /\ pc'[p] # "select"
         /\ input[p].student_id \in DOMAIN students
         /\ input[p].type = "WITHDRAWAL"
         /\ students[input[p].student_id] - input[p].amount < 0 )
       => /\ pc'[p] = "idle"
          /\ result'[p].status = "Insufficient balance"
          /\ NoEffect(p)]_vars

\* An overdraft on an account with a positive balance has been rejected.
C5_Witness ==
  \E p \in Procs :
     /\ result[p].status = "Insufficient balance"
     /\ input[p].type = "WITHDRAWAL"
     /\ students[input[p].student_id] > 0
     /\ students[input[p].student_id] < input[p].amount

\* the arithmetic relation between the fields of one ledger row
EntryConsistent(e) ==
  /\ e.type = "DEPOSIT" => e.balance_after = e.balance_before + e.amount
  /\ e.type = "WITHDRAWAL" => e.balance_after = e.balance_before - e.amount
  /\ e.balance_after >= 0

\* C6: every ledger entry, and every entry returned to a caller, has
\* balance_after = balance_before + amount for a DEPOSIT and
\* balance_before - amount for a WITHDRAWAL, and balance_after >= 0.
C6_EntryArithmetic ==
  /\ \A i \in DOMAIN transactions : EntryConsistent(transactions[i])
  /\ \A p \in Procs : result[p].status = "ok" => EntryConsistent(result[p].entry)

\* C7: in every step, an account's balance changes only together with the
\* appearance of a ledger entry of that account, and a ledger entry appears
\* only together with the balance it records.
C7_AtomicVisibility ==
  [][\A s \in DOMAIN students :
       LET added == { i \in DOMAIN transactions' :
                        /\ i > Len(transactions)
                        /\ transactions'[i].student_id = s } IN
       /\ students'[s] # students[s] => added # {}
       /\ \A i \in added : students'[s] = transactions'[i].balance_after
       /\ Cardinality(added) <= 1]_vars

\* One posting has committed; another has issued both of its writes, which
\* differ from what is visible, while a third party is about to read.
C7_Witness ==
  \E p \in Procs, q \in Procs :
     /\ p # q
     /\ Len(transactions) >= 1
     /\ pc[p] = "commit"
     /\ txBalance[p] # students[input[p].student_id]
     /\ pc[q] = "select"
     /\ input[q].student_id = input[p].student_id

\* C8: when the ledger insert fails because staffId references no staff
\* profile, the posting ends with a storage failure and the account and the
\* ledger are as before the call.
C8_StorageFailureRollsBack ==
  [][\A p \in Procs :
       ( /\ pc[p] = "insert"
         /\ pc'[p] # "insert"
         /\ input[p].staff_id \notin StaffProfiles )
       => /\ pc'[p] = "idle"
          /\ result'[p].status = "StorageFailure"
          /\ NoEffect(p)]_vars

\* A deposit by a staff id without profile has failed after its balance
\* write was issued.
C8_Witness ==
  \E p \in Procs :
     /\ result[p].status = "StorageFailure"
     /\ input[p].staff_id \notin StaffProfiles
     /\ input[p].type = "DEPOSIT"
     /\ pc[p] = "idle"

\* C9: a posting against a studentId without account fails with
\* 'Student not found' and changes no account, no ledger entry and no
\* sequence value.
C9_StudentNotFound ==
  [][\A p \in Procs :
       ( /\ pc[p] = "select"
         /\ pc'[p] # "select"
         /\ input[p].student_id \notin DOMAIN students )
       => /\ pc'[p] = "idle"
          /\ result'[p].status = "Student not found"
          /\ NoEffect(p)
          /\ nextId' = nextId
          /\ quiet[p] => nextId' = pre[p].nextId]_vars

\* A posting against the missing student id has been rejected after some
\* posting had succeeded.
C9_Witness ==
  \E p \in Procs :
     /\ result[p].status = "Student not found"
     /\ input[p].student_id \notin DOMAIN students
     /\ Len(transactions) >= 1

\* C10: a request with amount <= 0 is rejected as invalid before the
\* handler runs (no read is ever made for it), for DEPOSIT and WITHDRAWAL,
\* and the accounts and the ledger are as before the request.
C10_InvalidAmountRejected ==
  \A p \in Procs :
     /\ pc[p] # "idle" => input[p].amount > 0
     /\ ( input[p].type \in TransactionTypes /\ input[p].amount <= 0 )
        => /\ pc[p] = "idle"
           /\ result[p].status = "InvalidAmount"
           /\ quiet[p] => /\ students = pre[p].students
                          /\ transactions = pre[p].transactions
     /\ result[p].status = "InvalidAmount" => input[p].amount <= 0

\* A WITHDRAWAL of amount 0 has been rejected on an account that holds
\* money.
C10_Witness ==
  \E p \in Procs :
     /\ result[p].status = "InvalidAmount"
     /\ input[p].type = "WITHDRAWAL"
     /\ input[p].amount = 0
     /\ input[p].student_id \in DOMAIN students
     /\ students[input[p].student_id] > 0

\* C11: no operation other than a posting changes the current_balance of
\* an existing student profile: a balance changes only in the step in which
\* a createTransaction call on that student commits.
C11_OnlyPostingsWriteBalances ==
  [][\A s \in DOMAIN students :
       students'[s] # students[s]
       => \E p \in Procs : /\ pc[p] = "commit"
                           /\ pc'[p] = "idle"
                           /\ input[p].student_id = s]_vars

\* C12: the ledger is append-only: in every step, every ledger entry that
\* exists keeps its position and all of its field values, whatever operation
\* the step belongs to (a commit, a rollback, a rejected request).
C12_LedgerAppendOnly ==
  [][/\ Len(transactions') >= Len(transactions)
     /\ \A i \in DOMAIN transactions : transactions'[i] = transactions[i]]_vars

\* Two entries exist, and a later posting on an account they belong to was
\* rolled back after its insert failed.
C12_Witness ==
  \E p \in Procs :
     /\ Len(transactions) = 2
     /\ { transactions[i].id : i \in DOMAIN transactions } = {1, 2}
     /\ result[p].status = "StorageFailure"
     /\ \E i \in DOMAIN transactions :
          transactions[i].student_id = input[p].student_id

\* C13: a createTransaction call that returns successfully appends exactly
\* one ledger entry, for the student and staff it was called with, and
\* writes the balance of that one account; a call that fails appends none;
\* so the ledger grows by one entry per successful posting and never
\* otherwise.
C13_OneEntryPerSuccess ==
  [][/\ \A p \in Procs :
          ( pc[p] # "idle" /\ pc'[p] = "idle" /\ result'[p].status = "ok" )
          => /\ transactions' = Append(transactions, result'[p].entry)
             /\ result'[p].entry.student_id = input[p].student_id
             /\ result'[p].entry.staff_id = input[p].staff_id
             /\ \A s \in DOMAIN students :
                  s # input[p].student_id => students'[s] = students[s]
     /\ \A p \in Procs :
          ( result'[p] # result[p] /\ result'[p].status \notin {"ok", "pending"} )
          => transactions' = transactions
     /\ transactions' # transactions
        => \E p \in Procs :
              pc[p] # "idle" /\ pc'[p] = "idle" /\ result'[p].status = "ok"]_vars

\* One posting has succeeded and one has failed after drawing a ledger id:
\* the ledger holds one entry.
C13_Witness ==
  \E p \in Procs, q \in Procs :
     /\ result[p].status = "ok"
     /\ result[q].status = "StorageFailure"
     /\ Len(transactions) = 1
     /\ nextId = 3

\* C14: every ledger entry has a stored amount greater than 0.
C14_StoredAmountPositive ==
  \A i \in DOMAIN transactions : transactions[i].amount > 0

\* C15: when two createTransaction calls with identical arguments have both
\* succeeded, and their entries are the two most recent ones of the account,
\* the entries are distinct and the balance change has been applied twice:
\* the balance is the earlier entry's balance_before plus (DEPOSIT) or minus
\* (WITHDRAWAL) twice the amount.
C15_NotIdempotent ==
  \A p \in Procs, q \in Procs :
     LET s == input[p].student_id
         es == EntriesOf(s)
         n == Len(es) IN
     ( /\ p # q
       /\ pc[p] = "idle" /\ pc[q] = "idle"
       /\ result[p].status = "ok" /\ result[q].status = "ok"
       /\ input[p] = input[q]
       /\ n >= 2
       /\ es[n - 1] = result[p].entry
       /\ es[n] = result[q].entry )
     => /\ es[n - 1].id # es[n].id
        /\ students[s] = es[n - 1].balance_before
                          + (IF input[p].type = "DEPOSIT" THEN 2 ELSE 0 - 2)
                            * input[p].amount

\* C16: when a DEPOSIT of X and then a WITHDRAWAL of X have been posted on
\* an account with no other posting on it in between, the account is back at
\* the balance it had before the deposit, and the withdrawal's entry has the
\* deposit entry's balance_after as its balance_before.
C16_RoundTrip ==
  \A p \in Procs, q \in Procs :
     LET s == input[p].student_id
         es == EntriesOf(s)
         n == Len(es) IN
     ( /\ p # q
       /\ pc[p] = "idle" /\ pc[q] = "idle"
       /\ result[p].status = "ok" /\ result[q].status = "ok"
       /\ input[p].type = "DEPOSIT" /\ input[q].type = "WITHDRAWAL"
       /\ input[q].student_id = s
       /\ input[q].amount = input[p].amount
       /\ n >= 2
       /\ es[n - 1] = result[p].entry
       /\ es[n] = result[q].entry )
     => /\ students[s] = es[n - 1].balance_before
        /\ es[n].balance_before = es[n - 1].balance_after

\* C17: while a posting for one student is in progress (its read is done
\* and it has not committed), a posting for a different student is never
\* blocked: a request for it can be accepted, and whichever step it has
\* reached, its next step can be taken.
C17_DifferentStudentsDoNotBlock ==
  \A p \in Procs, q \in Procs :
     ( /\ p # q
       /\ pc[p] \in {"update", "insert", "commit"} )
     => /\ ( pc[q] # "idle" /\ input[q].student_id # input[p].student_id )
           => ENABLED ( \/ SelectStudent(q)
                        \/ UpdateBalance(q)
                        \/ InsertTransaction(q)
                        \/ Commit(q) )
        /\ ( pc[q] = "idle" /\ nextId + InFlight <= MaxId )
           => ENABLED Request(q, { in \in ConcInputs :
                                    in.student_id # input[p].student_id })

\* A posting on account 1 has inserted its ledger row and holds the row
\* lock, uncommitted; a posting on account 2 inserted its row after it and
\* has committed.
C17_Witness ==
  \E p \in Procs, q \in Procs :
     /\ pc[p] = "commit"
     /\ input[p].student_id = 1
     /\ pc[q] = "idle"
     /\ result[q].status = "ok"
     /\ input[q].student_id = 2
     /\ result[q].entry.id > txRow[p].id
     /\ transactions = <<result[q].entry>>

\* C18: a step in which a ledger query or a dashboard read runs leaves every
\* account balance, every ledger entry and the id sequence unchanged.
C18_ReadsNeverWrite ==
  [][reply'.op # "none"
     => /\ students' = students
        /\ transactions' = transactions
        /\ nextId' = nextId]_vars

\* The staff dashboard has been read while the ledger holds entries, an
\* account holds money and a posting is waiting to commit.
C18_Witness ==
  /\ reply.op = "getStaffDashboard"
  /\ Len(transactions) >= 1
  /\ \E s \in DOMAIN students : students[s] > 0
  /\ \E p \in Procs : pc[p] = "commit"

\* the calendar day an instant falls in
DayOf(t) == t \div TicksPerDay

\* C19: the response of getDailyTransactionSummary(date) counts and sums
\* exactly the ledger entries whose transaction_date falls in the calendar
\* day of date: the number of entries, the number and the amount sum of the
\* DEPOSIT entries and of the WITHDRAWAL entries (all zero when there are
\* none).
C19_DailySummary ==
  reply.op = "getDailyTransactionSummary"
  => LET ofDay == { i \in DOMAIN transactions :
                      DayOf(transactions[i].transaction_date) = DayOf(reply.args[1]) }
         deposits == { i \in ofDay : transactions[i].type = "DEPOSIT" }
         withdrawals == { i \in ofDay : transactions[i].type = "WITHDRAWAL" } IN
     /\ reply.value.total_transactions = Cardinality(ofDay)
     /\ reply.value.total_deposits = Cardinality(deposits)
     /\ reply.value.total_withdrawals = Cardinality(withdrawals)
     /\ reply.value.deposit_amount = AmountSum(deposits)
     /\ reply.value.withdrawal_amount = AmountSum(withdrawals)

\* C20: the response of getTransactionsReport(filters) holds exactly the
\* ledger entries that satisfy every filter that is given: transaction_date
\* not before the day of start_date, not after the day of end_date,
\* student_id equal, the student's class_id equal, type equal; a filter that
\* is not given excludes nothing.
C20_ReportFilters ==
  reply.op = "getTransactionsReport"
  => LET f == reply.args
         Matches(t) ==
           /\ f.start_date # Undefined => DayOf(t.transaction_date) >= DayOf(f.start_date)
           /\ f.end_date # Undefined => DayOf(t.transaction_date) <= DayOf(f.end_date)
           /\ f.student_id # Undefined => t.student_id = f.student_id
           /\ f.class_id # Undefined => ClassOf[t.student_id] = f.class_id
           /\ f.transaction_type # "NONE" => t.type = f.transaction_type IN
     /\ { reply.value[k] : k \in DOMAIN reply.value }
          = { transactions[i] : i \in { j \in DOMAIN transactions :
                                          Matches(transactions[j]) } }
     /\ Len(reply.value) = Cardinality({ j \in DOMAIN transactions :
                                           Matches(transactions[j]) })

\* C21: the response of getTransactionsByStaff(staffId, date) holds exactly
\* the ledger entries with that staff_id and, when a date is given, with a
\* transaction_date within the calendar day of date, each entry once.
C21_EntriesByStaff ==
  reply.op = "getTransactionsByStaff"
  => LET staffId == reply.args[1]
         date == reply.args[2]
         expected == { j \in DOMAIN transactions :
                         /\ transactions[j].staff_id = staffId
                         /\ date # Undefined =>
                              DayOf(transactions[j].transaction_date) = DayOf(date) } IN
     /\ { reply.value[k] : k \in DOMAIN reply.value }
          = { transactions[j] : j \in expected }
     /\ Len(reply.value) = Cardinality(expected)

\* C22: the response of getTransactionsByStudent(studentId) holds all and
\* only the ledger entries of that student, each once (none for a student
\* without postings), and of two entries the one posted later comes first.
C22_EntriesByStudent ==
  reply.op = "getTransactionsByStudent"
  => LET expected == { j \in DOMAIN transactions :
                         transactions[j].student_id = reply.args[1] }
         PositionOf(row) == CHOOSE j \in DOMAIN transactions : transactions[j] = row IN
     /\ { reply.value[k] : k \in DOMAIN reply.value }
          = { transactions[j] : j \in expected }
     /\ Len(reply.value) = Cardinality(expected)
     /\ \A k, l \in DOMAIN reply.value :
          k < l => PositionOf(reply.value[k]) > PositionOf(reply.value[l])

\* The entries of a student with two postings have been read while the other
\* student also has an entry.
C22_Witness ==
  /\ reply.op = "getTransactionsByStudent"
  /\ Len(reply.value) = 2
  /\ Len(transactions) = 3


C27_ClassWithStudentsKept ==
  [][/\ \A p \in Procs :
          /\ (/\ call[p].step = "idle"
              /\ call'[p] # call[p]
              /\ call'[p].op = "deleteClass"
              /\ \E s \in DOMAIN student_profiles :
                   student_profiles[s].class_id = call'[p].in.class_id)
             => (/\ call'[p].status = "Cannot delete class with assigned students"
                 /\ classes' = classes)
          /\ (/\ call[p].op = "deleteClass"
              /\ call[p].step = "delete"
              /\ call'[p].step = "idle"
              /\ call[p].in.class_id \notin classes)
             => call'[p].status = "no success"
     /\ \A s \in DOMAIN student_profiles' :
          student_profiles'[s].class_id \in classes']_vars

\* One deleteClass was rejected for a class that got its first student after
\* it was created, and another one found no class under its id.
C27_Witness ==
  \E p, q \in Procs :
    /\ call[p].op = "deleteClass" /\ call[p].in.class_id = 3
    /\ call[p].status = "Cannot delete class with assigned students"
    /\ call[q].op = "deleteClass" /\ call[q].status = "no success"

\* A deleteClass that counted no student was stopped by the foreign key,
\* because a student joined the class before the delete ran.
C27_RaceWitness ==
  \E p \in Procs : call[p].op = "deleteClass" /\ call[p].status = "error"


\* C30: createStudent is all-or-nothing: once no createStudent call is
\* between its two inserts for a user, every users row written by
\* createStudent has exactly one student profile.
C30_CreateStudentAllOrNothing ==
  \A u \in DOMAIN users :
    (/\ users[u].password_hash = HashedNis
     /\ \A p \in Procs : ~(call[p].step = "profile" /\ call[p].user = u))
    => Cardinality({ s \in DOMAIN student_profiles :
                       student_profiles[s].user_id = u }) = 1


\* C29: on every account, which starts at 0, the successful WITHDRAWALs never
\* add up to more than the successful DEPOSITs; so of two concurrent
\* withdrawals that the balance covers one by one but not together, at most
\* one succeeds.
C29_NoConcurrentOverdraft ==
  \A s \in DOMAIN students : SignedSum(EntriesOf(s)) >= 0


\* C24: validateSession(sessionId) answers the user of the session when a
\* session with that id exists, its expires_at is strictly later than the
\* current time and its user is active, and null in every other case.
C24_ValidateSession ==
  reply.op = "validateSession"
  => LET valid == { s \in sessions : /\ s.id = reply.args[1]
                                     /\ s.expires_at > now
                                     /\ users[s.user_id].is_active } IN
     IF valid = {}
     THEN reply.value = NoUser
     ELSE \E s \in valid :
            reply.value = [id |-> s.user_id, row |-> users[s.user_id]]

\* A session has been checked at the instant it expires, and found expired.
C24_Witness ==
  /\ reply.op = "validateSession"
  /\ reply.value = NoUser
  /\ \E s \in sessions : /\ s.id = reply.args[1]
                         /\ s.expires_at = now
                         /\ users[s.user_id].is_active


\* C25: logout(sessionId) removes the session with that id and no other one
\* and reports success, also when there is no such session; a session id
\* whose session is gone has no session in any later state, and
\* validateSession answers null for it.
C25_LogoutEndsSession ==
  [][/\ \A p \in Procs :
          (/\ call[p].step = "idle"
           /\ call'[p].op = "logout"
           /\ call'[p] # call[p])
          => /\ sessions' = { s \in sessions : s.id # call'[p].in.sessionId }
             /\ call'[p].status = "success"
     /\ \A s \in sessions \ sessions' :
          \E p \in Procs : /\ call'[p].op = "logout"
                           /\ call'[p].in.sessionId = s.id
                           /\ sessions \ sessions' = SessionRows(s.id)
     /\ \A id \in 1..(nextSession - 1) :
          SessionRows(id) = {} => \A s \in sessions' : s.id # id
     /\ (/\ reply'.op = "validateSession"
         /\ \A s \in sessions' : s.id # reply'.args[1])
        => reply'.value = NoUser]_vars

\* After a logout of one of two sessions, validateSession has answered null
\* for it while the other session is still there.
C25_Witness ==
  /\ reply.op = "validateSession"
  /\ reply.args[1] < nextSession
  /\ reply.value = NoUser
  /\ SessionRows(reply.args[1]) = {}
  /\ sessions # {}
  /\ \E p \in Procs : call[p].op = "logout" /\ call[p].in.sessionId = reply.args[1]


\* C26: a login is let through to its session insert only when a user with
\* the username exists, is active and the password verifies against its
\* hash; every other login is rejected and leaves the sessions as they were;
\* and a session is added only by such a login, for that user and with an
\* expires_at later than the current time.
C26_LoginCreatesSession ==
  [][/\ \A p \in Procs :
          (/\ call[p].step = "idle"
           /\ call'[p].op = "login"
           /\ call'[p] # call[p])
          => LET in == call'[p].in
                 ok == { u \in DOMAIN users :
                           /\ users[u].username = in.username
                           /\ users[u].is_active
                           /\ \E pw \in in.password :
                                verifyPassword(pw, users[u].password_hash) } IN
             /\ sessions' = sessions
             /\ IF ok = {}
                THEN call'[p].step = "idle" /\ call'[p].status \notin {"ok", "pending"}
                ELSE call'[p].step = "session" /\ call'[p].user \in ok
     /\ \A s \in sessions' \ sessions :
          /\ sessions' = sessions \cup {s}
          /\ s.expires_at > now
          /\ \E p \in Procs : /\ call[p].op = "login" /\ call[p].step = "session"
                              /\ call'[p].status = "ok"
                              /\ s.user_id = call[p].user]_vars

\* The staff user holds a session from a login, and a later login of the
\* account, deactivated since, has been rejected.
C26_Witness ==
  /\ \E s \in sessions : s.user_id = 1
  /\ \E p \in Procs : call[p].op = "login" /\ call[p].status = "Account is inactive"

\* A login that passed the checks inserted its session after the account was
\* deactivated.
C26_RaceWitness ==
  /\ \E p \in Procs : call[p].op = "login" /\ call[p].status = "ok"
  /\ \E s \in sessions : ~users[s.user_id].is_active /\ s.id = nextSession - 1
  /\ Cardinality(sessions) = 1 /\ nextSession = 2


\* The password rules of the user handlers, for a given reading of "a
\* password was supplied" to createUser or createStaff.
FlagFollowsLastPasswordOperation(Supplied(_)) ==
  /\ \A u \in DOMAIN users' \ DOMAIN users :
       \E p \in Procs :
         /\ call'[p].op \in {"createUser", "createStaff"}
         /\ call'[p].user = u
         /\ users'[u].must_change_password = ~Supplied(call'[p].in.password)
  /\ \A u \in DOMAIN users :
       users'[u] # users[u]
       => \E p \in Procs :
            /\ call[p].user = u
            /\ call[p].step \in {"update", "reset"}
            /\ call'[p].status = "success"
  /\ \A p \in Procs :
       /\ (call[p].step = "update" /\ call'[p].step = "idle")
          => /\ ~users'[call[p].user].must_change_password
             /\ users'[call[p].user].password_hash
                  = hashPassword(call[p].in.new_password)
       /\ (call[p].step = "reset" /\ call'[p].step = "idle")
          => /\ users'[call[p].user].must_change_password
             /\ users'[call[p].user].password_hash
                  = hashPassword(call[p].in.new_password)
       /\ (/\ call[p].step = "idle"
           /\ call'[p].op = "updatePassword"
           /\ call'[p] # call[p])
          => LET in == call'[p].in IN
             /\ users' = users
             /\ IF \/ in.user_id \notin DOMAIN users
                   \/ ~verifyPassword(in.current_password,
                                      users[in.user_id].password_hash)
                THEN /\ call'[p].step = "idle"
                     /\ call'[p].status \notin {"success", "pending"}
                ELSE call'[p].step = "update"

FlagFollowsNonEmpty ==
  [][FlagFollowsLastPasswordOperation(PasswordGiven)]_vars

\* A user created with the empty string as password must change it, and the
\* staff user has changed the password.
FlagFollowsNonEmpty_Witness ==
  /\ \E p \in Procs : /\ call[p].op = "createUser"
                      /\ call[p].status = "ok"
                      /\ call[p].in.password = {""}
                      /\ users[call[p].user].must_change_password
  /\ \E p \in Procs : /\ call[p].op = "updatePassword"
                      /\ call[p].status = "success"
                      /\ call[p].in.current_password = "a"
                      /\ ~users[1].must_change_password
                      /\ users[1].password_hash = hashPassword("b")

====
